---- MODULE Spec2Model ----
(***************************************************************************)
(* A model of the AmriTravel plugin registry / hook dispatcher             *)
(* (PluginManager) and of the plugin trigger, booking and lead HTTP entry  *)
(* points that call it.  JavaScript is single threaded: every synchronous  *)
(* function body is one atomic action; an `await` ends an action and the   *)
(* continuation is a separate action.  The deploy watcher                  *)
(* (vercel-deploy.js) and the task runner (task-runner.js) are modelled    *)
(* alongside, each under a specification of its own.                       *)
(***************************************************************************)
EXTENDS Integers, Sequences, FiniteSets, TLC

VARIABLES
    plugins,        \* this.plugins: name -> [instance, config, active]
    activePlugins,  \* this.activePlugins: array of names
    hooks,          \* this.hooks: hook name -> array of [name, callback]
    inherited,      \* the config property written onto members `this.plugins` inherits
    lastCall,       \* the most recent call when it was a registry call other than trigger
    lastTrigger,    \* the most recent call when it was trigger(): arguments, outcome, result array
    activationOrder,\* history: names in the order of their latest successful activate
    deactivated,    \* history: names whose latest successful activate/deactivate was a deactivate
    req,            \* the HTTP request being served by an entry point
    db,             \* the record store: the rows inserted so far
    served,         \* number of requests received
    dispatch,       \* the most recent trigger() whose handlers could call back into the registry
    references,     \* processBooking's reference step: per booking, the inputs and the reference kept
    watcher,        \* vercel-deploy.js: changedFiles, isDeploying, deploymentTimer and the runs of deploy()
    runner          \* task-runner.js: the log file, the task in flight and what its caller observed

regVars == <<plugins, activePlugins, hooks, inherited, lastCall, lastTrigger,
            activationOrder, deactivated>>
entryVars == <<req, db, served>>
sideVars == <<references, watcher, runner>>
auxVars == <<dispatch, sideVars>>
vars == <<plugins, activePlugins, hooks, inherited, lastCall, lastTrigger,
          activationOrder, deactivated, req, db, served, auxVars>>

----------------------------------------------------------------------------
(* Bounds of the model *)

\* activate() is not offered once the active list or a hook's list holds
\* this many entries
MaxActive == 2

\* number of HTTP requests the entry points receive
MaxRequests == 1

\* number of bookings whose reference step is followed
MaxBookings == 2

----------------------------------------------------------------------------
(* The fixed hook table and the plugin implementations fed to the registry *)

\* PluginManager constructor: the seven own keys of this.hooks
HookNames == {"onBooking", "onLead", "onPayment", "onMessage",
              "onAdTrack", "onTaskCreate", "onVehicleUpdate"}

\* property names every object literal inherits from Object.prototype
ProtoKeys == {"constructor"}

\* hook names handed to trigger(): enumerated ones, an unknown one, an inherited one
TriggerArgs == {"onBooking", "onLead", "onRefund", "constructor"}

PluginNames == {"A", "B"}

\* names handed to activate, deactivate, getPluginConfig and
\* updatePluginConfig: also one that was never registered but is inherited
CallNames == PluginNames \cup ProtoKeys

ImplIds == {"I1", "I2", "I3", "I4"}

\* plugin objects registered while handlers call back into the registry
ReentrantImpls == {"I1", "I6"}

\* plugin objects registered while activation is studied: handlers under
\* enumerated names, under an unknown name (I2: onRefund) and under a name
\* every object inherits (I5: constructor)
ActivateImpls == {"I1", "I2", "I5"}

\* Plugin objects as register() receives them (duck typed: optional init,
\* cleanup, updateConfig, hooks; a callback is absent, returns, or throws).  hooks is the object's key list in insertion order; each
\* handler is described by what a call of it does:
\*   returns       returns a plain value
\*   throwsError   throws an Error object (it has a message)
\*   throwsNull    throws null / undefined
\*   asyncResolves an async function whose promise is later fulfilled
\*   asyncRejects  an async function whose promise is later rejected
ImplOf(id) ==
    CASE id = "I1" -> [init |-> "ok", cleanup |-> "ok", updateConfig |-> "ok",
                       hooks |-> << [key |-> "onBooking", kind |-> "returns"],
                                    [key |-> "onLead",    kind |-> "asyncResolves"] >>]
      [] id = "I2" -> [init |-> "none", cleanup |-> "throws", updateConfig |-> "none",
                       hooks |-> << [key |-> "onBooking", kind |-> "throwsError"],
                                    [key |-> "onRefund",  kind |-> "returns"],
                                    [key |-> "onLead",    kind |-> "asyncRejects"] >>]
      [] id = "I3" -> [init |-> "ok", cleanup |-> "none", updateConfig |-> "throws",
                       hooks |-> << [key |-> "onBooking", kind |-> "throwsNull"],
                                    [key |-> "onLead",    kind |-> "throwsNull"] >>]
      [] id = "I4" -> [init |-> "throws", cleanup |-> "none", updateConfig |-> "none",
                       hooks |-> << [key |-> "onLead", kind |-> "returns"] >>]
      \* its onBooking handler calls pluginManager.deactivate("B") and returns
      [] id = "I6" -> [init |-> "none", cleanup |-> "none", updateConfig |-> "none",
                       hooks |-> << [key |-> "onBooking", kind |-> "deactivates",
                                     target |-> "B"] >>]
      \* declares a handler under a name that is no hook but a property every
      \* object inherits
      [] id = "I5" -> [init |-> "none", cleanup |-> "none", updateConfig |-> "none",
                       hooks |-> << [key |-> "onBooking",   kind |-> "returns"],
                                    [key |-> "constructor", kind |-> "returns"] >>]

\* a record-like object: the store's table and row id (when it has them) and its fields
EmptyObject == [id |-> 0, table |-> "", f |-> << >>]

\* data arguments of a direct trigger() call (every caller in the repository
\* passes an object; an undefined argument would take the default {})
TriggerData == {[id |-> 0, table |-> "", f |-> [payload |-> "d1"]]}

\* A configuration object: a function from its keys to their values.
EmptyConfig == [k \in {} |-> ""]

\* the object literal { apiKey, baseUrl }
ConfigOf(apiKey, baseUrl) ==
    [k \in {"apiKey", "baseUrl"} |-> IF k = "apiKey" THEN apiKey ELSE baseUrl]

\* config arguments of register()
Configs == {ConfigOf("k0", "u0")}

\* config arguments of register() while configurations are being updated:
\* also the default {} of an omitted argument
RegisterConfigs == Configs \cup {EmptyConfig}

\* config arguments of updatePluginConfig(): no key, an existing key with a
\* new value, a new key
Partials ==
    {EmptyConfig,
     [k \in {"apiKey"} |-> "k1"],
     [k \in {"timeout"} |-> "t1"]}

----------------------------------------------------------------------------
(* JavaScript property lookup on the two tables *)

Undefined == [tag |-> "undefined"]   \* also stands for the value undefined
Inherited == [tag |-> "inherited"]

\* this.hooks[hookName]: an own key gives its array, a key found on
\* Object.prototype gives a (truthy, non-array) inherited member
HooksLookup(h, key) ==
    IF key \in DOMAIN h THEN [tag |-> "own", value |-> h[key]]
    ELSE IF key \in ProtoKeys THEN Inherited
    ELSE Undefined

\* this.plugins[name]
PluginsLookup(p, name) ==
    IF name \in DOMAIN p THEN [tag |-> "own", value |-> p[name]]
    ELSE IF name \in ProtoKeys THEN Inherited
    ELSE Undefined

Truthy(v) == v.tag # "undefined"

----------------------------------------------------------------------------
(* Hook handlers *)

HandlerKind(cb) ==
    LET hs == ImplOf(cb.impl).hooks
        i  == CHOOSE j \in 1..Len(hs) : hs[j].key = cb.key
    IN hs[i].kind

NoThrow == [isNull |-> FALSE, message |-> ""]
NoValue == [kind |-> "none", state |-> "n/a", from |-> "", data |-> EmptyObject]

\* hook.callback(data): what one call of a handler does
CallHandler(cb, data) ==
    LET k == HandlerKind(cb) IN
    CASE k = "returns" ->
            [how |-> "return", thrown |-> NoThrow,
             value |-> [kind |-> "value", state |-> "n/a", from |-> cb.impl, data |-> data]]
      [] k \in {"asyncResolves", "asyncRejects"} ->
            [how |-> "return", thrown |-> NoThrow,
             value |-> [kind |-> "promise", state |-> "pending", from |-> cb.impl, data |-> data]]
      [] k = "throwsError" ->
            [how |-> "throw", value |-> NoValue,
             thrown |-> [isNull |-> FALSE, message |-> "boom"]]
      [] k = "throwsNull" ->
            [how |-> "throw", value |-> NoValue,
             thrown |-> [isNull |-> TRUE, message |-> ""]]

----------------------------------------------------------------------------
(* PluginManager methods as functions of the registry
   reg = [plugins, activePlugins, hooks] *)

Registry == [plugins |-> plugins, activePlugins |-> activePlugins, hooks |-> hooks]

\* register(name, plugin, config)
RegisterCode(reg, name, impl, config) ==
    [reg |-> [reg EXCEPT !.plugins =
                 [n \in DOMAIN reg.plugins \cup {name} |->
                     IF n = name
                     THEN [instance |-> impl, config |-> config, active |-> FALSE]
                     ELSE reg.plugins[n]]],
     ret |-> "this", called |-> {}]

\* the forEach over Object.keys(plugin.instance.hooks) in activate
RECURSIVE PushHooks(_, _, _, _)
PushHooks(h, name, impl, i) ==
    LET keys == ImplOf(impl).hooks IN
    IF i > Len(keys) THEN [threw |-> FALSE, hooks |-> h]
    ELSE LET key == keys[i].key
             l   == HooksLookup(h, key)
         IN IF ~Truthy(l) THEN PushHooks(h, name, impl, i + 1)
            ELSE IF l.tag = "inherited"
                 THEN [threw |-> TRUE, hooks |-> h]   \* .push is not a function
            ELSE PushHooks([h EXCEPT ![key] =
                               Append(@, [name |-> name,
                                          callback |-> [impl |-> impl, key |-> key]])],
                           name, impl, i + 1)

\* activate with a try around init: a throwing init is swallowed and the
\* activation goes on
ActivateGuardsInit(reg, name) ==
    LET l == PluginsLookup(reg.plugins, name) IN
    IF ~Truthy(l) THEN [reg |-> reg, ret |-> "false", called |-> {}]
    ELSE IF l.tag = "inherited" THEN [reg |-> reg, ret |-> "threw", called |-> {}]
    ELSE LET plugin == l.value
             impl   == ImplOf(plugin.instance)
             called == IF impl.init = "none" THEN {} ELSE {"init"}
             r      == PushHooks(reg.hooks, name, plugin.instance, 1)
         IN IF r.threw
            THEN [reg |-> [reg EXCEPT !.hooks = r.hooks], ret |-> "threw", called |-> called]
            ELSE [reg |-> [plugins |-> [reg.plugins EXCEPT ![name].active = TRUE],
                           activePlugins |-> Append(reg.activePlugins, name),
                           hooks |-> r.hooks],
                  ret |-> "true", called |-> called]

\* activate(name)
ActivateCode(reg, name) ==
    LET l == PluginsLookup(reg.plugins, name) IN
    IF ~Truthy(l) THEN [reg |-> reg, ret |-> "false", called |-> {}]
    \* .instance of the inherited member is undefined: reading .init throws
    ELSE IF l.tag = "inherited" THEN [reg |-> reg, ret |-> "threw", called |-> {}]
    ELSE LET plugin == l.value
             impl   == ImplOf(plugin.instance)
             called == IF impl.init = "none" THEN {} ELSE {"init"}
         IN IF impl.init = "throws" THEN [reg |-> reg, ret |-> "threw", called |-> called]
            ELSE LET r == PushHooks(reg.hooks, name, plugin.instance, 1) IN
                 IF r.threw
                 THEN [reg |-> [reg EXCEPT !.hooks = r.hooks], ret |-> "threw",
                       called |-> called]
                 ELSE [reg |-> [plugins |-> [reg.plugins EXCEPT ![name].active = TRUE],
                                activePlugins |-> Append(reg.activePlugins, name),
                                hooks |-> r.hooks],
                       ret |-> "true", called |-> called]

\* deactivate whose filter results are dropped instead of assigned
DeactivateKeepsHooks(reg, name) ==
    LET l == PluginsLookup(reg.plugins, name) IN
    IF ~Truthy(l) \/ l.tag = "inherited" THEN [reg |-> reg, ret |-> "false", called |-> {}]
    ELSE IF ~l.value.active THEN [reg |-> reg, ret |-> "false", called |-> {}]
    ELSE IF ImplOf(l.value.instance).cleanup = "throws"
         THEN [reg |-> reg, ret |-> "threw", called |-> {"cleanup"}]
         ELSE [reg |-> [reg EXCEPT !.plugins[name].active = FALSE,
                                   !.activePlugins = SelectSeq(reg.activePlugins,
                                                    LAMBDA pluginName : pluginName # name)],
               ret |-> "true",
               called |-> IF ImplOf(l.value.instance).cleanup = "none"
                          THEN {} ELSE {"cleanup"}]

\* the body of deactivate past its two guards: unsubscribe, cleanup, mark inactive
DeactivateActive(reg, name) ==
    LET plugin   == reg.plugins[name]
        cleanup  == ImplOf(plugin.instance).cleanup
        called   == IF cleanup = "none" THEN {} ELSE {"cleanup"}
        filtered == [h \in DOMAIN reg.hooks |->
                        SelectSeq(reg.hooks[h], LAMBDA hook : hook.name # name)]
    IN \* cleanup() is called outside any try: its throw leaves deactivate
       \* after the hooks were filtered and before active is cleared
       IF cleanup = "throws"
       THEN [reg |-> [reg EXCEPT !.hooks = filtered], ret |-> "threw", called |-> called]
       ELSE [reg |-> [plugins |-> [reg.plugins EXCEPT ![name].active = FALSE],
                      activePlugins |-> SelectSeq(reg.activePlugins,
                                               LAMBDA pluginName : pluginName # name),
                      hooks |-> filtered],
             ret |-> "true", called |-> called]

\* deactivate that does not ask whether the plugin is active
DeactivateUnguarded(reg, name) ==
    LET l == PluginsLookup(reg.plugins, name) IN
    IF ~Truthy(l) THEN [reg |-> reg, ret |-> "false", called |-> {}]
    ELSE IF l.tag = "inherited" THEN [reg |-> reg, ret |-> "false", called |-> {}]
    ELSE DeactivateActive(reg, name)

\* deactivate(name)
DeactivateCode(reg, name) ==
    LET l == PluginsLookup(reg.plugins, name) IN
    IF ~Truthy(l) THEN [reg |-> reg, ret |-> "false", called |-> {}]
    \* .active of the inherited member is undefined
    ELSE IF l.tag = "inherited" THEN [reg |-> reg, ret |-> "false", called |-> {}]
    ELSE IF ~l.value.active THEN [reg |-> reg, ret |-> "false", called |-> {}]
    ELSE DeactivateActive(reg, name)

\* { ...a, ...b }: b's keys with b's values, a's other keys with a's values;
\* spreading undefined adds nothing
Spread(a, b) ==
    LET x == IF a = Undefined THEN EmptyConfig ELSE a
        y == IF b = Undefined THEN EmptyConfig ELSE b
    IN [k \in DOMAIN x \cup DOMAIN y |-> IF k \in DOMAIN y THEN y[k] ELSE x[k]]

\* getPluginConfig(name): null for a name that looks up falsy; the config
\* property of what the lookup found otherwise
GetPluginConfigCode(reg, inh, name) ==
    LET l == PluginsLookup(reg.plugins, name) IN
    IF ~Truthy(l) THEN [ret |-> "null", config |-> Undefined]
    ELSE IF l.tag = "inherited" THEN [ret |-> "config", config |-> inh[name]]
    ELSE [ret |-> "config", config |-> l.value.config]

\* updatePluginConfig that assigns the new object instead of merging
UpdatePluginConfigReplaces(reg, inh, name, config) ==
    LET l == PluginsLookup(reg.plugins, name) IN
    IF ~Truthy(l) \/ l.tag = "inherited"
    THEN [reg |-> reg, inh |-> inh, ret |-> "false", called |-> {}, passed |-> Undefined]
    ELSE LET updateConfig == ImplOf(l.value.instance).updateConfig
             call         == l.value.active /\ updateConfig # "none"
         IN [reg |-> [reg EXCEPT !.plugins[name].config = config], inh |-> inh,
             ret |-> IF call /\ updateConfig = "throws" THEN "threw" ELSE "true",
             called |-> IF call THEN {"updateConfig"} ELSE {},
             passed |-> IF call THEN config ELSE Undefined]

\* updatePluginConfig(name, config)
UpdatePluginConfigCode(reg, inh, name, config) ==
    LET l == PluginsLookup(reg.plugins, name) IN
    IF ~Truthy(l)
    THEN [reg |-> reg, inh |-> inh, ret |-> "false", called |-> {}, passed |-> Undefined]
    ELSE IF l.tag = "inherited"
         \* the merged object is stored on the inherited member; its .active
         \* is undefined, so no callback is looked up
         THEN [reg |-> reg, inh |-> [inh EXCEPT ![name] = Spread(@, config)],
               ret |-> "true", called |-> {}, passed |-> Undefined]
    ELSE LET merged       == Spread(l.value.config, config)
             updateConfig == ImplOf(l.value.instance).updateConfig
             call         == l.value.active /\ updateConfig # "none"
         IN \* updateConfig() is called outside any try, after the merge was stored
            [reg |-> [reg EXCEPT !.plugins[name].config = merged], inh |-> inh,
             ret |-> IF call /\ updateConfig = "throws" THEN "threw" ELSE "true",
             called |-> IF call THEN {"updateConfig"} ELSE {},
             passed |-> IF call THEN merged ELSE Undefined]

\* the for..of loop of trigger, from subscription i on
RECURSIVE RunHooks(_, _, _, _, _)
RunHooks(list, i, data, results, events) ==
    IF i > Len(list)
    THEN [outcome |-> "returned", results |-> results,
          events |-> Append(events, [e |-> "return", i |-> 0])]
    ELSE LET hook    == list[i]
             c       == CallHandler(hook.callback, data)
             started == Append(events, [e |-> "start", i |-> i])
             done    == Append(started, [e |-> "done", i |-> i])
         IN IF c.how = "return"
            THEN RunHooks(list, i + 1, data,
                          Append(results, [plugin |-> hook.name, result |-> c.value]),
                          IF c.value.kind = "promise" THEN started ELSE done)
            ELSE IF c.thrown.isNull
                 \* error.message on null: the catch block itself throws
                 THEN [outcome |-> "threw", results |-> << >>, events |-> done]
                 ELSE RunHooks(list, i + 1, data,
                               Append(results, [plugin |-> hook.name,
                                                error |-> c.thrown.message]),
                               done)

\* the default parameter data = {}
DataOrDefault(dataArg) == IF dataArg = Undefined THEN EmptyObject ELSE dataArg

\* the plugin a "deactivates" handler passes to deactivate
TargetOf(cb) ==
    LET hs == ImplOf(cb.impl).hooks
        i  == CHOOSE j \in 1..Len(hs) : hs[j].key = cb.key
    IN hs[i].target

\* The for..of loop of trigger when a handler may call deactivate.  The loop
\* iterates the array that this.hooks[hookName] referred to when it started
\* (list); deactivate assigns new, filtered arrays to this.hooks and leaves
\* that array as it was.  invoked lists each handler call with the names for
\* which a deactivate had returned true by then.
RECURSIVE RunHooksReentrant(_, _, _, _, _, _, _)
RunHooksReentrant(reg, list, i, data, results, invoked, gone) ==
    IF i > Len(list)
    THEN [reg |-> reg, outcome |-> "returned", results |-> results, invoked |-> invoked,
          gone |-> gone]
    ELSE LET hook == list[i]
             inv  == Append(invoked, [name |-> hook.name, gone |-> gone])
         IN IF HandlerKind(hook.callback) = "deactivates"
            THEN LET target == TargetOf(hook.callback)
                     d      == DeactivateCode(reg, target)
                 IN IF d.ret = "threw"
                    \* the cleanup's Error leaves the handler and is caught by trigger
                    THEN RunHooksReentrant(d.reg, list, i + 1, data,
                             Append(results, [plugin |-> hook.name, error |-> "boom"]),
                             inv, gone)
                    ELSE RunHooksReentrant(d.reg, list, i + 1, data,
                             Append(results,
                                    [plugin |-> hook.name,
                                     result |-> [kind |-> "value", state |-> "n/a",
                                                 from |-> hook.callback.impl,
                                                 data |-> data]]),
                             inv,
                             IF d.ret = "true" THEN gone \cup {target} ELSE gone)
            ELSE LET c == CallHandler(hook.callback, data) IN
                 IF c.how = "return"
                 THEN RunHooksReentrant(reg, list, i + 1, data,
                          Append(results, [plugin |-> hook.name, result |-> c.value]),
                          inv, gone)
                 ELSE IF c.thrown.isNull
                      THEN [reg |-> reg, outcome |-> "threw", results |-> << >>,
                            invoked |-> inv, gone |-> gone]
                      ELSE RunHooksReentrant(reg, list, i + 1, data,
                               Append(results, [plugin |-> hook.name,
                                                error |-> c.thrown.message]),
                               inv, gone)

\* trigger(hookName, data) on the registry reg, handlers calling back included
TriggerReentrantCode(reg, hookName, dataArg) ==
    LET data == DataOrDefault(dataArg)
        l    == HooksLookup(reg.hooks, hookName)
    IN IF ~Truthy(l)
       THEN [reg |-> reg, outcome |-> "returned", results |-> << >>, invoked |-> << >>,
             gone |-> {}]
       ELSE IF l.tag = "inherited"
            THEN [reg |-> reg, outcome |-> "threw", results |-> << >>, invoked |-> << >>,
                  gone |-> {}]
       ELSE RunHooksReentrant(reg, l.value, 1, data, << >>, << >>, {})

\* trigger(hookName, data = {})
TriggerCode(h, hookName, dataArg) ==
    LET data == DataOrDefault(dataArg)
        l    == HooksLookup(h, hookName)
    IN IF ~Truthy(l)
       THEN [outcome |-> "returned", results |-> << >>, events |-> << >>]
       ELSE IF l.tag = "inherited"
            THEN [outcome |-> "threw", results |-> << >>, events |-> << >>]  \* not iterable
       ELSE RunHooks(l.value, 1, data, << >>, << >>)

----------------------------------------------------------------------------
(* The booking and lead entry points (HTTP handlers) *)

Methods == {"POST", "GET"}

\* validateBookingData: requiredFields, in the order they are checked
BookingRequired == << "vehicleId", "pickupDate", "returnDate", "pickupLocation",
                      "returnLocation", "first-name", "last-name", "email", "phone" >>

\* validateLeadData: requiredFields
LeadRequired == << "name", "email" >>

\* A request body: JSON null (or no body at all), or an object.  A field of
\* an object is absent ("missing"), the empty string, or a non-empty string.
NullBody == [isNull |-> TRUE, f |-> << >>]
Obj(fields) == [isNull |-> FALSE, f |-> fields]

\* obj[field]
Get(obj, field) == IF field \in DOMAIN obj.f THEN obj.f[field] ELSE "missing"

\* JavaScript truthiness of a field value
JsTruthy(val) == val \notin {"missing", ""}

\* obj with obj[field] = val
Put(obj, field, val) ==
    [obj EXCEPT !.f = [k \in DOMAIN obj.f \cup {field} |->
                          IF k = field THEN val ELSE obj.f[k]]]

CompleteBooking ==
    Obj([k \in {BookingRequired[i] : i \in 1..Len(BookingRequired)} |-> "v"])

CompleteLead == Obj([k \in {"name", "email"} |-> "v"])

\* request bodies sent to POST /api/booking
BookingBodies ==
    {NullBody, CompleteBooking, Put(CompleteBooking, "reference", "v")}
    \cup {Put(CompleteBooking, BookingRequired[i], bad) :
             i \in 1..Len(BookingRequired), bad \in {"missing", ""}}

\* request bodies sent to POST /api/lead
LeadBodies ==
    {NullBody, CompleteLead,
     Put(CompleteLead, "phone", "v"),
     Put(Put(Put(CompleteLead, "phone", "v"), "source", "v"), "utm_source", "v"),
     Put(CompleteLead, "utm_campaign", "v"),
     Put(CompleteLead, "source", "")}
    \cup {Put(CompleteLead, LeadRequired[i], bad) :
             i \in 1..Len(LeadRequired), bad \in {"missing", ""}}

\* the for loop of validateBookingData / validateLeadData; reading a field of
\* null throws a TypeError
ValidateRequired(body, requiredFields) ==
    IF body.isNull THEN "threw"
    ELSE IF \A i \in 1..Len(requiredFields) : JsTruthy(Get(body, requiredFields[i]))
         THEN "true" ELSE "false"

ValidateBookingData(bookingData) == ValidateRequired(bookingData, BookingRequired)

ValidateLeadData(leadData) == ValidateRequired(leadData, LeadRequired)

\* A string as the sequence of its characters
Prefix == << "A", "T", "-" >>

DigitChars == << "0", "1", "2", "3", "4", "5", "6", "7", "8", "9" >>

\* Number.prototype.toString() of a non-negative integer
RECURSIVE NumberToString(_)
NumberToString(n) ==
    IF n < 10 THEN << DigitChars[n + 1] >>
    ELSE Append(NumberToString(n \div 10), DigitChars[(n % 10) + 1])

\* str.slice(-count): the last count characters, the whole string when shorter
SliceLast(str, count) ==
    IF Len(str) <= count THEN str ELSE SubSeq(str, Len(str) - count + 1, Len(str))

\* str.padStart(targetLength, pad) for a one-character pad
RECURSIVE PadStart(_, _, _)
PadStart(str, targetLength, pad) ==
    IF Len(str) >= targetLength THEN str
    ELSE PadStart(<< pad >> \o str, targetLength, pad)

\* Date.now().toString(): the millisecond clock as its decimal digits
Timestamps ==
    { << "1", "7", "3", "0", "0", "0", "0", "1", "2", "3", "4", "5", "6" >>,
      << "1", "7", "3", "0", "0", "0", "0", "1", "2", "3", "4", "5", "7" >>,
      << "1", "7", "3", "1", "0", "0", "0", "1", "2", "3", "4", "5", "6" >>,
      << "1", "7", "3", "0", "0", "0", "0", "0", "0", "0", "0", "4", "2" >> }

\* Math.floor(Math.random() * 10000): Math.random() is in [0, 1)
Draws == {0, 7, 1234, 9999}

\* the reference field of a booking request: absent, empty, or a string
NoReference == [given |-> FALSE, chars |-> << >>]
SuppliedReferences ==
    {NoReference,
     [given |-> TRUE, chars |-> << >>],
     [given |-> TRUE, chars |-> << "R", "1" >>],
     [given |-> TRUE, chars |-> Prefix \o << "1", "2", "3", "4", "5", "6", "0", "0", "0", "7" >>]}

\* generateBookingReference that keeps the whole timestamp
GenerateReferenceWholeTimestamp(now, draw) ==
    Prefix \o now \o PadStart(NumberToString(draw), 4, "0")

\* generateBookingReference(), given what Date.now() and the random draw yield
GenerateBookingReference(now, draw) ==
    LET timestamp == SliceLast(now, 6)
        random    == PadStart(NumberToString(draw), 4, "0")
    IN Prefix \o timestamp \o random

\* processBooking: if (!bookingData.reference) bookingData.reference = generate...
AssignReference(supplied, now, draw) ==
    IF ~supplied.given \/ supplied.chars = << >>
    THEN [generated |-> TRUE, chars |-> GenerateBookingReference(now, draw)]
    ELSE [generated |-> FALSE, chars |-> supplied.chars]

\* processBooking before the insert: reference if absent, created_at (the
\* characters of a generated reference are those of GenerateBookingReference)
StampBooking(bookingData) ==
    Put(IF JsTruthy(Get(bookingData, "reference")) THEN bookingData
        ELSE Put(bookingData, "reference", "AT-generated"),
        "created_at", "now")

\* processLead before the insert: created_at, default source
StampLead(leadData) ==
    LET stamped == Put(leadData, "created_at", "now") IN
    IF JsTruthy(Get(stamped, "source")) THEN stamped
    ELSE Put(stamped, "source", "website")

\* the vendor helpers triggerIntegrations awaits after the plugin hook, in order
BookingVendors(bookingData) == << "whatsapp", "crm", "email", "vehicle" >>

LeadVendors(leadData) ==
    << "crm", "email" >>
    \o (IF JsTruthy(Get(leadData, "phone")) THEN << "whatsapp" >> ELSE << >>)
    \o (IF \/ JsTruthy(Get(leadData, "utm_source"))
           \/ JsTruthy(Get(leadData, "utm_medium"))
           \/ JsTruthy(Get(leadData, "utm_campaign"))
        THEN << "adtrack" >> ELSE << >>)

NoHook == [called |-> FALSE, hook |-> "", data |-> EmptyObject, outcome |-> "none",
           results |-> << >>, entries |-> 0, errors |-> 0]
NoResp == [success |-> FALSE, record |-> EmptyObject, error |-> "",
           hook |-> "", results |-> << >>]

IdleReq == [kind |-> "none", pc |-> "idle", method |-> "", body |-> NullBody,
            secret |-> "missing", data |-> NullBody, insert |-> "none", saved |-> EmptyObject, hook |-> NoHook,
            vendors |-> << >>, todo |-> << >>, status |-> 0, resp |-> NoResp]

\* res.status(code).json({ error })
RespondError(r, code, message) ==
    [r EXCEPT !.pc = "done", !.status = code,
              !.resp = [NoResp EXCEPT !.error = message]]

\* res.status(200).json({ success: true, booking | lead: saved })
RespondSaved(r) ==
    [r EXCEPT !.pc = "done", !.status = 200,
              !.resp = [NoResp EXCEPT !.success = TRUE, !.record = r.saved]]

\* the booking handler up to the await of the insert
BookingHandlerCode(method, body) ==
    LET r == [IdleReq EXCEPT !.kind = "booking", !.method = method, !.body = body] IN
    IF method # "POST" THEN RespondError(r, 405, "Method not allowed")
    ELSE LET valid == ValidateBookingData(body) IN
         IF valid = "threw" THEN RespondError(r, 500, "Internal server error")
         ELSE IF valid = "false" THEN RespondError(r, 400, "Invalid booking data")
         ELSE [r EXCEPT !.pc = "inserting", !.insert = "pending", !.data = StampBooking(body)]

\* the lead handler up to the await of the insert
LeadHandlerCode(method, body) ==
    LET r == [IdleReq EXCEPT !.kind = "lead", !.method = method, !.body = body] IN
    IF method # "POST" THEN RespondError(r, 405, "Method not allowed")
    ELSE LET valid == ValidateLeadData(body) IN
         IF valid = "threw" THEN RespondError(r, 500, "Internal server error")
         ELSE IF valid = "false" THEN RespondError(r, 400, "Invalid lead data")
         ELSE [r EXCEPT !.pc = "inserting", !.insert = "pending", !.data = StampLead(body)]

\* process.env.AI_ASSISTANT_API_KEY: not set, set to the empty string, or the secret
Secrets == {"missing", "", "s3cret"}

\* the apiKey, hook and data fields of bodies sent to POST /api/plugin
ApiKeys == {"missing", "", "s3cret", "wrong"}
BodyHooks == {"missing", "onBooking", "onLead", "onRefund", "constructor"}
BodyData == {"missing", "d1"}

\* request bodies sent to POST /api/plugin
PluginBodies ==
    {NullBody}
    \cup {Obj([k \in {"hook", "data", "apiKey"} |->
                 IF k = "hook" THEN hook ELSE IF k = "data" THEN data ELSE apiKey])
             : hook \in BodyHooks, data \in BodyData, apiKey \in ApiKeys}
    \cup {Obj([k \in {"hook"} |-> "onBooking"])}

\* validateApiKey(apiKey), validApiKey being the environment's secret
ValidateApiKey(apiKey, validApiKey) ==
    IF ~JsTruthy(validApiKey) THEN FALSE
    ELSE apiKey = validApiKey

\* validateHook(hook): the seven names of validHooks
ValidateHook(hook) ==
    IF ~JsTruthy(hook) THEN FALSE
    ELSE hook \in {"onBooking", "onLead", "onPayment", "onMessage",
                   "onAdTrack", "onTaskCreate", "onVehicleUpdate"}

\* data || {} : the body's data as trigger receives it
DataOrEmpty(val) ==
    IF JsTruthy(val) THEN [id |-> 0, table |-> "", f |-> [payload |-> val]]
    ELSE EmptyObject

\* res.json(results): JSON.stringify of the array trigger returned.  A promise
\* has no enumerable property of its own and is written as {}
JsonResults(results) ==
    [i \in 1..Len(results) |->
        IF "result" \in DOMAIN results[i] /\ results[i].result.kind = "promise"
        THEN [results[i] EXCEPT !.result = [kind |-> "value", state |-> "n/a", from |-> "",
                                            data |-> EmptyObject]]
        ELSE results[i]]

\* the try block of the plugin trigger handler and its catch: destructuring
\* a null body throws, as does a trigger that throws
PluginTryCode(r, h) ==
    IF r.body.isNull THEN RespondError(r, 500, "Internal server error")
    ELSE IF ~ValidateApiKey(Get(r.body, "apiKey"), r.secret)
         THEN RespondError(r, 401, "Unauthorized")
    ELSE IF ~ValidateHook(Get(r.body, "hook"))
         THEN RespondError(r, 400, "Invalid hook name")
    ELSE LET hook == Get(r.body, "hook")
             data == DataOrEmpty(Get(r.body, "data"))
             t    == TriggerCode(h, hook, data)
             hk   == [called |-> TRUE, hook |-> hook, data |-> data,
                      outcome |-> t.outcome, results |-> t.results,
                    entries |-> Len(t.results),
                      errors |-> Cardinality({i \in 1..Len(t.results) :
                                                "error" \in DOMAIN t.results[i]})]
             r1   == [r EXCEPT !.hook = hk]
         IN IF t.outcome = "threw" THEN RespondError(r1, 500, "Internal server error")
            ELSE [r1 EXCEPT !.pc = "done", !.status = 200,
                            !.resp = [NoResp EXCEPT !.success = TRUE, !.hook = hook,
                                                    !.results = JsonResults(t.results)]]

\* the plugin trigger handler without its method check
PluginHandlerAnyMethod(method, body, validApiKey, h) ==
    PluginTryCode([IdleReq EXCEPT !.kind = "plugin", !.method = method, !.body = body,
                                  !.secret = validApiKey], h)

\* the plugin trigger handler (POST /api/plugin); it has no await
PluginHandlerCode(method, body, validApiKey, h) ==
    LET r == [IdleReq EXCEPT !.kind = "plugin", !.method = method, !.body = body,
                             !.secret = validApiKey] IN
    IF method # "POST" THEN RespondError(r, 405, "Method not allowed")
    ELSE PluginTryCode(r, h)

\* triggerIntegrations handed the request's data instead of the row the store returned
TriggerIntegrationsWithInput(r, h, hookName, vendorList) ==
    LET unsaved == [id |-> 0, table |-> "", f |-> r.data.f]
        t       == TriggerCode(h, hookName, unsaved)
        hk      == [called |-> TRUE, hook |-> hookName, data |-> unsaved,
                    outcome |-> t.outcome, results |-> t.results,
                    entries |-> Len(t.results), errors |-> 0]
        plan    == IF t.outcome = "threw" THEN << >> ELSE vendorList
        r1      == [r EXCEPT !.hook = hk]
    IN IF plan = << >> THEN RespondSaved(r1)
       ELSE [r1 EXCEPT !.pc = "vendors",
                       !.vendors = << [helper |-> Head(plan), outcome |-> "pending"] >>,
                       !.todo = Tail(plan)]

\* triggerIntegrations from its start to its first await: the plugin hook,
\* then the first vendor helper; a throw of trigger is caught by the
\* surrounding try and ends triggerIntegrations
TriggerIntegrationsCode(r, h, hookName, vendorList) ==
    LET t    == TriggerCode(h, hookName, r.saved)
        hk   == [called |-> TRUE, hook |-> hookName, data |-> r.saved,
                 outcome |-> t.outcome, results |-> t.results,
                    entries |-> Len(t.results),
                 errors |-> Cardinality({i \in 1..Len(t.results) :
                                           "error" \in DOMAIN t.results[i]})]
        plan == IF t.outcome = "threw" THEN << >> ELSE vendorList
        r1   == [r EXCEPT !.hook = hk]
    IN IF plan = << >> THEN RespondSaved(r1)
       ELSE [r1 EXCEPT !.pc = "vendors",
                       !.vendors = << [helper |-> Head(plan), outcome |-> "pending"] >>,
                       !.todo = Tail(plan)]

\* processBooking / processLead that never looks at the insert's error
AfterInsertIgnoresError(r, h, row, error) ==
    LET r1 == [r EXCEPT !.saved = row] IN
    IF r.kind = "booking"
    THEN TriggerIntegrationsCode(r1, h, "onBooking", BookingVendors(row))
    ELSE TriggerIntegrationsCode(r1, h, "onLead", LeadVendors(row))

\* processBooking / processLead after the insert: { data, error } decides
\* between the throw (answered 500 by the handler) and the integrations
AfterInsertCode(r, h, row, error) ==
    IF error THEN RespondError(r, 500, "Internal server error")
    ELSE LET r1 == [r EXCEPT !.saved = row] IN
         IF r.kind = "booking"
         THEN TriggerIntegrationsCode(r1, h, "onBooking", BookingVendors(row))
         ELSE TriggerIntegrationsCode(r1, h, "onLead", LeadVendors(row))

\* vendor helpers without their own try/catch: a failed call ends
\* triggerIntegrations and, were that not caught either, the request
AfterVendorUncaught(r, outcome) ==
    LET n  == Len(r.vendors)
        r1 == [r EXCEPT !.vendors[n].outcome = outcome]
    IN IF outcome = "failed" THEN RespondError(r1, 500, "Internal server error")
       ELSE IF r.todo = << >> THEN RespondSaved(r1)
       ELSE [r1 EXCEPT !.vendors = Append(@, [helper |-> Head(r.todo), outcome |-> "pending"]),
                       !.todo = Tail(r.todo)]

\* a vendor helper ends (its own try/catch swallows a failed call); the next
\* helper starts, or triggerIntegrations returns and the handler answers 200
AfterVendorCode(r, outcome) ==
    LET n  == Len(r.vendors)
        r1 == [r EXCEPT !.vendors[n].outcome = outcome]
    IN IF r.todo = << >> THEN RespondSaved(r1)
       ELSE [r1 EXCEPT !.vendors = Append(@, [helper |-> Head(r.todo), outcome |-> "pending"]),
                       !.todo = Tail(r.todo)]

----------------------------------------------------------------------------
(* The deploy watcher (vercel-deploy.js): the fs.watch callback, the
   debounce timer and deploy().  A run of deploy() is a sequence of steps
   separated by awaits; `runs` holds the step each run in progress waits at. *)

WatchFolders == {"pages"}
ExcludeFiles == {".DS_Store"}

\* the filename the watcher reports: null, an excluded name, or a file
NoFilename == "null"
Filenames == {NoFilename, ".DS_Store", "a.js", "b.js"}

PathJoin(folder, filename) == folder \o "/" \o filename

WatchedPaths == {PathJoin(d, f) : d \in WatchFolders,
                                  f \in Filenames \ ({NoFilename} \cup ExcludeFiles)}

Includes(array, x) == \E i \in 1..Len(array) : array[i] = x

NoDeployCall == [called |-> FALSE, wasDeploying |-> FALSE, started |-> FALSE]

IdleWatcher == [changedFiles |-> << >>, isDeploying |-> FALSE, deploymentTimer |-> FALSE,
                runs |-> << >>, lastDeploy |-> NoDeployCall, ended |-> "none",
                pending |-> {}]

\* the fs.watch callback: a new path is recorded and the timer (re)armed;
\* `pending` records the watched paths changed since the last run started
WatchCallback(w, folder, filename) ==
    IF filename = NoFilename \/ filename \in ExcludeFiles
    THEN w
    ELSE LET filePath == PathJoin(folder, filename)
             seen == [w EXCEPT !.pending = @ \cup {filePath}]
         IN IF ~Includes(w.changedFiles, filePath)
            THEN [seen EXCEPT !.changedFiles = Append(@, filePath),
                              !.deploymentTimer = TRUE]
            ELSE seen

RemoveAt(s, i) == SubSeq(s, 1, i - 1) \o SubSeq(s, i + 1, Len(s))

\* deploy() without its entry guard
DeployUnguarded(w) ==
    [w EXCEPT !.isDeploying = TRUE,
              !.runs = Append(@, "hasChanges"),
              !.pending = {},
              !.ended = "none",
              !.lastDeploy = [called |-> TRUE, wasDeploying |-> w.isDeploying,
                              started |-> TRUE]]

\* deploy() up to its first await
DeployCode(w) ==
    IF w.isDeploying
    THEN [w EXCEPT !.lastDeploy = [called |-> TRUE, wasDeploying |-> TRUE,
                                   started |-> FALSE]]
    ELSE [w EXCEPT !.isDeploying = TRUE,
                   !.runs = Append(@, "hasChanges"),
                   !.pending = {},
                   !.ended = "none",
                   !.lastDeploy = [called |-> TRUE, wasDeploying |-> FALSE,
                                   started |-> TRUE]]

\* the timer's callback
TimerCode(w) == DeployCode([w EXCEPT !.deploymentTimer = FALSE])

\* a run leaves deploy(): the early returns and the finally block both
\* clear the flag
EndRun(w, i, how) ==
    [w EXCEPT !.isDeploying = FALSE, !.runs = RemoveAt(@, i), !.ended = how,
              !.lastDeploy = NoDeployCall]

\* the continuation after `await hasChanges()`
AfterHasChanges(w, i, changes) ==
    IF ~changes
    THEN EndRun(w, i, "noChanges")
    ELSE [w EXCEPT !.runs[i] = "commitAndPush", !.lastDeploy = NoDeployCall]

\* the continuation after `await commitAndPush()`
AfterCommitAndPush(w, i, pushed) ==
    IF ~pushed
    THEN EndRun(w, i, "pushFailed")
    ELSE [w EXCEPT !.runs[i] = "triggerVercelDeployment", !.lastDeploy = NoDeployCall]

\* triggerVercelDeployment() resolves true, resolves false or rejects
DeployOutcomes == {"true", "false", "rejects"}

\* the continuation after `await triggerVercelDeployment()`
AfterTriggerVercelDeployment(w, i, outcome) ==
    CASE outcome = "false" -> EndRun(w, i, "deployFailed")
      [] outcome = "rejects" -> EndRun(w, i, "threw")
      [] OTHER -> [EndRun(w, i, "deployed") EXCEPT !.changedFiles = << >>]

----------------------------------------------------------------------------
(* The task runner (task-runner.js): the log file, runTask and the
   callbacks that scheduleTask hands to cron.  The log file holds one array
   per key; an entry is modelled by its message. *)

LogLimit == 1000

\* the file initLogs writes
EmptyLogs == [tasks |-> << >>, errors |-> << >>, system |-> << >>]

\* log(type, message): a type that is not a key of the file makes push throw
\* inside the try block, and the file is left as it was
Log(logs, type, message) ==
    IF type \in DOMAIN logs
    THEN LET pushed == Append(logs[type], [message |-> message])
         IN [logs EXCEPT ![type] = IF Len(pushed) > LogLimit
                                   THEN SubSeq(pushed, Len(pushed) - LogLimit + 1, Len(pushed))
                                   ELSE pushed]
    ELSE logs

\* getLogs(type, limit)
GetLogs(logs, type, limit) ==
    IF type \in DOMAIN logs
    THEN SubSeq(logs[type], IF Len(logs[type]) > limit THEN Len(logs[type]) - limit + 1 ELSE 1,
                Len(logs[type]))
    ELSE << >>

DefaultLimit == 100

\* the built-in tasks of the model and their cron expressions
TaskNames == {"syncBookings", "syncVehicles"}
ScheduleOf(name) == IF name = "syncBookings" THEN "0 */2 * * *" ELSE "0 */4 * * *"
RunNames == TaskNames \cup {"unknown"}

\* registerTask(name, callback)
RegisterTask(r, name) ==
    [r EXCEPT !.tasks = @ \cup {name},
              !.logs = Log(@, "system", "Task registered: " \o name)]

\* scheduleTask(name, schedule), for a registered task
ScheduleTask(r, name, schedule) ==
    [r EXCEPT !.scheduledTasks = @ \cup {name},
              !.logs = Log(@, "system",
                           "Task scheduled: " \o name \o " with schedule " \o schedule)]

NoRun == [kind |-> "none", name |-> "", outcome |-> "none", error |-> "none"]

\* the constructor: initLogs() on a missing file, then loadTasks()
LoadTasks(r) ==
    LET r1 == RegisterTask(r, "syncBookings")
        r2 == RegisterTask(r1, "syncVehicles")
        r3 == ScheduleTask(r2, "syncBookings", ScheduleOf("syncBookings"))
        r4 == ScheduleTask(r3, "syncVehicles", ScheduleOf("syncVehicles"))
    IN [r4 EXCEPT !.logs = Log(@, "system", "Tasks loaded and scheduled successfully")]

IdleRunner ==
    LoadTasks([tasks |-> {}, scheduledTasks |-> {}, logs |-> EmptyLogs,
               flights |-> << >>, last |-> NoRun, started |-> 0])

\* what a task does before its first await: the stub tasks log synchronously
TaskCall(logs, name) ==
    IF name = "syncVehicles"
    THEN Log(logs, "tasks", "Vehicle sync not implemented yet")
    ELSE logs

\* how a task's promise settles: the stub resolves; syncBookings resolves or
\* rethrows the Error it caught
TaskErrors == {"db down"}
TaskOutcomes(name) ==
    IF name = "syncVehicles" THEN {"resolves"} ELSE {"resolves"} \cup TaskErrors

\* runTask(name) up to its await
RunTaskCode(r, name) ==
    IF name \notin r.tasks
    THEN [r EXCEPT !.last = [kind |-> "manual", name |-> name, outcome |-> "rejected",
                             error |-> "Task " \o name \o " not registered"]]
    ELSE [r EXCEPT !.logs = TaskCall(Log(@, "tasks", "Starting manual task: " \o name), name),
                   !.flights = Append(@, [kind |-> "manual", name |-> name]),
                   !.last = NoRun,
                   !.started = @ + 1]

\* the cron callback of scheduleTask up to its await
ScheduledCode(r, name) ==
    [r EXCEPT !.logs = TaskCall(Log(@, "tasks", "Starting scheduled task: " \o name), name),
              !.flights = Append(@, [kind |-> "scheduled", name |-> name]),
              !.last = NoRun,
              !.started = @ + 1]

KindWord(kind) == IF kind = "manual" THEN "manual" ELSE "scheduled"

\* the continuation after `await this.tasks[name](...)`, in runTask and in
\* the cron callback
AfterTask(r, i, outcome) ==
    LET f == r.flights[i]
        rest == RemoveAt(r.flights, i)
    IN IF outcome = "resolves"
       THEN [r EXCEPT !.logs = Log(@, "tasks",
                                   "Completed " \o KindWord(f.kind) \o " task: " \o f.name),
                      !.flights = rest,
                      !.last = [kind |-> f.kind, name |-> f.name,
                                outcome |-> IF f.kind = "manual" THEN "returned" ELSE "completed",
                                error |-> "none"]]
       ELSE [r EXCEPT !.logs = Log(@, "error",
                                   "Error executing task " \o f.name \o ": " \o outcome),
                      !.flights = rest,
                      !.last = [kind |-> f.kind, name |-> f.name,
                                outcome |-> IF f.kind = "manual" THEN "rejected" ELSE "contained",
                                error |-> outcome]]

----------------------------------------------------------------------------
\* what is observed of a registry call: the operation and its name argument,
\* how it returned, the plugin callbacks it invoked, the config argument it
\* was given, the config it handed to a callback and the config it returned
NoCall == [op |-> "none", name |-> "", ret |-> "none", called |-> {},
           config |-> Undefined, passed |-> Undefined, returned |-> Undefined]

NoDispatch == [called |-> FALSE, hook |-> "", outcome |-> "none", results |-> << >>,
               invoked |-> << >>]

NoTrigger == [called |-> FALSE, hook |-> "", data |-> EmptyObject, outcome |-> "none",
              results |-> << >>, events |-> << >>, subs |-> << >>,
              expected |-> << >>, deactAtStart |-> {}]

Init ==
    /\ plugins = [n \in {} |-> Undefined]
    /\ activePlugins = << >>
    /\ hooks = [h \in HookNames |-> << >>]
    /\ inherited = [n \in ProtoKeys |-> Undefined]
    /\ lastCall = NoCall
    /\ lastTrigger = NoTrigger
    /\ activationOrder = << >>
    /\ deactivated = {}
    /\ req = IdleReq
    /\ db = {}
    /\ served = 0
    /\ references = << >>
    /\ dispatch = NoDispatch
    /\ watcher = IdleWatcher
    /\ runner = IdleRunner

SetRegistry(reg) ==
    /\ plugins' = reg.plugins
    /\ activePlugins' = reg.activePlugins
    /\ hooks' = reg.hooks

Register(name, impl, config) ==
    LET r == RegisterCode(Registry, name, impl, config) IN
    /\ SetRegistry(r.reg)
    /\ lastCall' = [NoCall EXCEPT !.op = "register", !.name = name, !.ret = r.ret,
                                  !.config = config]
    /\ lastTrigger' = NoTrigger
    /\ dispatch' = NoDispatch
    /\ UNCHANGED <<inherited, activationOrder, deactivated, req, db, served, sideVars>>

Activate(name) ==
    LET r == ActivateCode(Registry, name) IN
    /\ Len(activePlugins) < MaxActive
    /\ \A h \in HookNames : Len(hooks[h]) < MaxActive
    /\ SetRegistry(r.reg)
    /\ lastCall' = [NoCall EXCEPT !.op = "activate", !.name = name, !.ret = r.ret,
                                  !.called = r.called]
    /\ activationOrder' = IF r.ret = "true"
                          THEN Append(SelectSeq(activationOrder, LAMBDA n : n # name), name)
                          ELSE activationOrder
    /\ deactivated' = IF r.ret = "true" THEN deactivated \ {name} ELSE deactivated
    /\ lastTrigger' = NoTrigger
    /\ dispatch' = NoDispatch
    /\ UNCHANGED <<inherited, req, db, served, sideVars>>

Deactivate(name) ==
    LET r == DeactivateCode(Registry, name) IN
    /\ SetRegistry(r.reg)
    /\ lastCall' = [NoCall EXCEPT !.op = "deactivate", !.name = name, !.ret = r.ret,
                                  !.called = r.called]
    /\ deactivated' = IF r.ret = "true" THEN deactivated \cup {name} ELSE deactivated
    /\ lastTrigger' = NoTrigger
    /\ dispatch' = NoDispatch
    /\ UNCHANGED <<inherited, activationOrder, req, db, served, sideVars>>

GetPluginConfig(name) ==
    LET r == GetPluginConfigCode(Registry, inherited, name) IN
    /\ lastCall' = [NoCall EXCEPT !.op = "getPluginConfig", !.name = name, !.ret = r.ret,
                                  !.returned = r.config]
    /\ lastTrigger' = NoTrigger
    /\ dispatch' = NoDispatch
    /\ UNCHANGED <<plugins, activePlugins, hooks, inherited, activationOrder, deactivated,
                   req, db, served, sideVars>>

UpdatePluginConfig(name, config) ==
    LET r == UpdatePluginConfigCode(Registry, inherited, name, config) IN
    /\ SetRegistry(r.reg)
    /\ inherited' = r.inh
    /\ lastCall' = [NoCall EXCEPT !.op = "updatePluginConfig", !.name = name,
                                  !.ret = r.ret, !.called = r.called,
                                  !.config = config, !.passed = r.passed]
    /\ lastTrigger' = NoTrigger
    /\ dispatch' = NoDispatch
    /\ UNCHANGED <<activationOrder, deactivated, req, db, served, sideVars>>

\* the subscriptions trigger would iterate for hookName (none for a non-array)
SubsOf(h, hookName) ==
    IF hookName \in DOMAIN h THEN h[hookName] ELSE << >>

Trigger(hookName, dataArg) ==
    LET t    == TriggerCode(hooks, hookName, dataArg)
        subs == SubsOf(hooks, hookName)
    IN
    /\ lastTrigger' = [called |-> TRUE, hook |-> hookName, data |-> DataOrDefault(dataArg),
                       outcome |-> t.outcome, results |-> t.results,
                       events |-> t.events, subs |-> subs,
                       expected |-> SelectSeq(activationOrder,
                                       LAMBDA n : \E j \in 1..Len(subs) : subs[j].name = n),
                       deactAtStart |-> deactivated]
    /\ lastCall' = NoCall
    /\ UNCHANGED <<plugins, activePlugins, hooks, inherited, activationOrder, deactivated,
                   req, db, served, auxVars>>

\* trigger() while handlers that call deactivate are subscribed
TriggerReentrant(hookName, dataArg) ==
    LET t == TriggerReentrantCode(Registry, hookName, dataArg) IN
    /\ SetRegistry(t.reg)
    /\ dispatch' = [called |-> TRUE, hook |-> hookName, outcome |-> t.outcome,
                    results |-> t.results, invoked |-> t.invoked]
    /\ deactivated' = deactivated \cup t.gone
    /\ lastCall' = NoCall
    /\ lastTrigger' = NoTrigger
    /\ UNCHANGED <<inherited, activationOrder, req, db, served, sideVars>>

\* the event loop settles the promise an async handler returned to trigger
Settle(i) ==
    /\ lastTrigger.called
    /\ i \in 1..Len(lastTrigger.results)
    /\ "result" \in DOMAIN lastTrigger.results[i]
    /\ lastTrigger.results[i].result.kind = "promise"
    /\ lastTrigger.results[i].result.state = "pending"
    /\ LET k == HandlerKind(lastTrigger.subs[i].callback) IN
       lastTrigger' = [lastTrigger EXCEPT
            !.results[i].result.state =
                IF k = "asyncRejects" THEN "rejected" ELSE "fulfilled",
            !.events = Append(@, [e |-> "done", i |-> i])]
    /\ UNCHANGED <<plugins, activePlugins, hooks, inherited, lastCall, activationOrder,
                   deactivated, req, db, served, auxVars>>

\* POST /api/booking arrives (one request is served at a time)
BookingRequest(method, body) ==
    /\ req.pc \in {"idle", "done"}
    /\ served < MaxRequests
    /\ served' = served + 1
    /\ req' = BookingHandlerCode(method, body)
    /\ UNCHANGED <<db, regVars, auxVars>>

\* POST /api/lead arrives
LeadRequest(method, body) ==
    /\ req.pc \in {"idle", "done"}
    /\ served < MaxRequests
    /\ served' = served + 1
    /\ req' = LeadHandlerCode(method, body)
    /\ UNCHANGED <<db, regVars, auxVars>>

\* POST /api/plugin arrives
PluginRequest(method, body, validApiKey) ==
    /\ req.pc \in {"idle", "done"}
    /\ served < MaxRequests
    /\ served' = served + 1
    /\ req' = PluginHandlerCode(method, body, validApiKey, hooks)
    /\ UNCHANGED <<db, regVars, auxVars>>

\* processBooking reaches its insert: the reference the booking is persisted with
ProcessBookingReference(supplied, now, draw) ==
    /\ Len(references) < MaxBookings
    /\ references' = Append(references,
                            [supplied |-> supplied, now |-> now, draw |-> draw,
                             kept |-> AssignReference(supplied, now, draw)])
    /\ UNCHANGED <<regVars, entryVars, dispatch, watcher, runner>>

TableOf(kind) == IF kind = "booking" THEN "bookings" ELSE "leads"

\* the store answers the insert: the new row with its id, or an error
InsertReturns(error) ==
    /\ req.pc = "inserting"
    /\ LET row == [id |-> Cardinality(db) + 1, table |-> TableOf(req.kind), f |-> req.data.f] IN
       /\ db' = IF error THEN db ELSE db \cup {row}
       /\ req' = AfterInsertCode([req EXCEPT !.insert = IF error THEN "error" ELSE "ok"],
                                 hooks, row, error)
    /\ UNCHANGED <<served, regVars, auxVars>>

\* the HTTP call of the running vendor helper ends
VendorReturns(outcome) ==
    /\ req.pc = "vendors"
    /\ req' = AfterVendorCode(req, outcome)
    /\ UNCHANGED <<db, served, regVars, auxVars>>

Next ==
    \/ \E name \in PluginNames, impl \in ImplIds, config \in Configs :
          Register(name, impl, config)
    \/ \E name \in CallNames : Activate(name)
    \/ \E name \in CallNames : Deactivate(name)
    \/ \E hookName \in TriggerArgs, dataArg \in TriggerData : Trigger(hookName, dataArg)
    \/ \E i \in 1..MaxActive : Settle(i)

Spec == Init /\ [][Next]_vars

\* the bookings that reach the insert of processBooking, one after the other
ReferenceNext ==
    \E supplied \in SuppliedReferences, now \in Timestamps, draw \in Draws :
        ProcessBookingReference(supplied, now, draw)

SpecReference == Init /\ [][ReferenceNext]_vars

\* the registry while plugins whose handlers call deactivate are in use
ReentrantNext ==
    \/ \E name \in PluginNames, impl \in ReentrantImpls, config \in Configs :
          Register(name, impl, config)
    \/ \E name \in PluginNames : Activate(name)
    \/ \E name \in PluginNames : Deactivate(name)
    \/ \E hookName \in {"onBooking", "onLead"}, dataArg \in TriggerData :
          TriggerReentrant(hookName, dataArg)

SpecReentrant == Init /\ [][ReentrantNext]_vars

\* the registry while plugins are registered, activated and deactivated
ActivateNext ==
    \/ \E name \in PluginNames, impl \in ActivateImpls, config \in Configs :
          Register(name, impl, config)
    \/ \E name \in PluginNames : Activate(name)
    \/ \E name \in PluginNames : Deactivate(name)

SpecActivate == Init /\ [][ActivateNext]_vars

\* the registry while configurations are read and updated
ConfigNext ==
    \/ \E impl \in ImplIds, config \in RegisterConfigs : Register("A", impl, config)
    \/ \E name \in {"A"} \cup ProtoKeys : Activate(name)
    \/ \E name \in {"A"} \cup ProtoKeys : Deactivate(name)
    \/ \E name \in CallNames, config \in Partials : UpdatePluginConfig(name, config)
    \/ \E name \in CallNames : GetPluginConfig(name)

SpecConfig == Init /\ [][ConfigNext]_vars

\* the entry points, serving requests while plugins are registered and activated
EntryNext ==
    \/ \E impl \in ImplIds, config \in Configs : Register("A", impl, config)
    \/ Activate("A")
    \/ \E body \in BookingBodies, method \in Methods : BookingRequest(method, body)
    \/ \E body \in LeadBodies, method \in Methods : LeadRequest(method, body)
    \/ \E body \in PluginBodies, method \in Methods, validApiKey \in Secrets :
          PluginRequest(method, body, validApiKey)
    \/ \E error \in BOOLEAN : InsertReturns(error)
    \/ \E outcome \in {"ok", "failed"} : VendorReturns(outcome)

SpecEntry == Init /\ [][EntryNext]_vars

----------------------------------------------------------------------------
(* The deploy watcher's events *)

\* runs of deploy() in progress at once that the model follows
MaxRuns == 2

\* fs.watch reports a change
FileChange(folder, filename) ==
    /\ watcher' = [WatchCallback(watcher, folder, filename) EXCEPT !.lastDeploy = NoDeployCall]
    /\ UNCHANGED <<regVars, entryVars, dispatch, references, runner>>

\* the debounce timer fires and calls deploy()
TimerFires ==
    /\ watcher.deploymentTimer
    /\ Len(watcher.runs) < MaxRuns
    /\ watcher' = TimerCode(watcher)
    /\ UNCHANGED <<regVars, entryVars, dispatch, references, runner>>

HasChangesReturns(i, changes) ==
    /\ i \in 1..Len(watcher.runs)
    /\ watcher.runs[i] = "hasChanges"
    /\ watcher' = AfterHasChanges(watcher, i, changes)
    /\ UNCHANGED <<regVars, entryVars, dispatch, references, runner>>

CommitAndPushReturns(i, pushed) ==
    /\ i \in 1..Len(watcher.runs)
    /\ watcher.runs[i] = "commitAndPush"
    /\ watcher' = AfterCommitAndPush(watcher, i, pushed)
    /\ UNCHANGED <<regVars, entryVars, dispatch, references, runner>>

TriggerVercelDeploymentSettles(i, outcome) ==
    /\ i \in 1..Len(watcher.runs)
    /\ watcher.runs[i] = "triggerVercelDeployment"
    /\ watcher' = AfterTriggerVercelDeployment(watcher, i, outcome)
    /\ UNCHANGED <<regVars, entryVars, dispatch, references, runner>>

RunSteps ==
    \E i \in 1..MaxRuns :
        \/ \E changes \in BOOLEAN : HasChangesReturns(i, changes)
        \/ \E pushed \in BOOLEAN : CommitAndPushReturns(i, pushed)
        \/ \E outcome \in DeployOutcomes : TriggerVercelDeploymentSettles(i, outcome)

WatchNext ==
    \/ \E folder \in WatchFolders, filename \in Filenames : FileChange(folder, filename)
    \/ TimerFires
    \/ RunSteps

SpecWatch == Init /\ [][WatchNext]_vars

\* timers fire and every awaited step of a run settles
SpecWatchFair == SpecWatch /\ WF_vars(TimerFires) /\ WF_vars(RunSteps)

----------------------------------------------------------------------------
(* The task runner's events *)

\* task runs started, manual and scheduled together
MaxTaskRuns == 2

RunTask(name) ==
    /\ runner.started < MaxTaskRuns
    /\ runner' = RunTaskCode(runner, name)
    /\ UNCHANGED <<regVars, entryVars, dispatch, references, watcher>>

ScheduledRun(name) ==
    /\ runner.started < MaxTaskRuns
    /\ name \in runner.scheduledTasks
    /\ runner' = ScheduledCode(runner, name)
    /\ UNCHANGED <<regVars, entryVars, dispatch, references, watcher>>

TaskSettles(i, outcome) ==
    /\ i \in 1..Len(runner.flights)
    /\ outcome \in TaskOutcomes(runner.flights[i].name)
    /\ runner' = AfterTask(runner, i, outcome)
    /\ UNCHANGED <<regVars, entryVars, dispatch, references, watcher>>

RunnerNext ==
    \/ \E name \in RunNames : RunTask(name)
    \/ \E name \in TaskNames : ScheduledRun(name)
    \/ \E i \in 1..MaxTaskRuns, outcome \in {"resolves"} \cup TaskErrors : TaskSettles(i, outcome)

SpecRunner == Init /\ [][RunnerNext]_vars

----------------------------------------------------------------------------
(* Properties of the dispatcher *)

Range(f) == {f[i] : i \in DOMAIN f}

IsErrorEntry(e) == "error" \in DOMAIN e

Throws(sub) == HandlerKind(sub.callback) \in {"throwsError", "throwsNull"}

\* the entry a subscription's handler earns on its own, whatever the others do
OwnEntry(sub, data) ==
    LET c == CallHandler(sub.callback, data) IN
    IF c.how = "return"
    THEN [plugin |-> sub.name, result |-> c.value]
    ELSE [plugin |-> sub.name, error |-> c.thrown.message]

\* equal up to the later settling of a returned promise
SameEntry(e, own) ==
    /\ DOMAIN e = DOMAIN own
    /\ e.plugin = own.plugin
    /\ IF IsErrorEntry(own) THEN e.error = own.error
       ELSE /\ e.result.kind = own.result.kind
            /\ e.result.from = own.result.from
            /\ e.result.data = own.result.data

Started(t, i) == \E p \in 1..Len(t.events) : t.events[p] = [e |-> "start", i |-> i]

\* position of an event in the log of a trigger call, 0 when absent
Pos(t, ev) ==
    IF \E p \in 1..Len(t.events) : t.events[p] = ev
    THEN CHOOSE p \in 1..Len(t.events) : t.events[p] = ev
    ELSE 0

OnEnumeratedHook(t) == t.called /\ t.hook \in HookNames

\* C1: failure isolation in trigger.  When the handler of some subscription of
\* the hook throws, trigger still calls every subscription's handler and
\* returns exactly one entry per subscription; exactly the throwing ones are
\* {plugin, error} entries and every other entry is that plugin's own outcome.
C1_FailureIsolation ==
    LET t == lastTrigger
        n == Len(t.subs)
    IN (OnEnumeratedHook(t) /\ \E k \in 1..n : Throws(t.subs[k])) =>
          /\ t.outcome = "returned"
          /\ Len(t.results) = n
          /\ \A i \in 1..n :
                /\ Started(t, i)
                /\ IsErrorEntry(t.results[i]) <=> Throws(t.subs[i])
                /\ SameEntry(t.results[i], OwnEntry(t.subs[i], t.data))

\* C2: dispatch order equals activation order.  A trigger that returns lists
\* one entry per currently subscribed plugin, in the order in which those
\* plugins were most recently activated.
C2_DispatchOrderIsActivationOrder ==
    LET t == lastTrigger IN
    (OnEnumeratedHook(t) /\ t.outcome = "returned") =>
        [i \in 1..Len(t.results) |-> t.results[i].plugin] = t.expected

\* C3: once deactivate(P) has returned true, and until P is activated again,
\* no hook list holds a subscription named P, P is not in the active list, and
\* a trigger started in that period neither calls a handler of P nor returns
\* an entry for P.
C3_DeactivatedPluginGone ==
    /\ \A P \in deactivated :
          /\ \A h \in DOMAIN hooks : \A i \in 1..Len(hooks[h]) : hooks[h][i].name # P
          /\ P \notin Range(activePlugins)
    /\ \A P \in lastTrigger.deactAtStart :
          /\ \A i \in 1..Len(lastTrigger.results) : lastTrigger.results[i].plugin # P
          /\ \A i \in 1..Len(lastTrigger.subs) :
                Started(lastTrigger, i) => lastTrigger.subs[i].name # P

\* a trigger that dispatched to another plugin while some P was deactivated
C3_Witness ==
    /\ lastTrigger.called
    /\ lastTrigger.hook = "onBooking"
    /\ lastTrigger.deactAtStart # {}
    /\ Len(lastTrigger.results) >= 1

\* C4: for a hook name outside the seven enumerated ones, trigger returns an
\* empty result sequence, calls no handler and does not throw.
C4_UnknownHookReturnsEmpty ==
    LET t == lastTrigger IN
    (t.called /\ t.hook \notin HookNames) =>
        /\ t.outcome = "returned"
        /\ t.results = << >>
        /\ \A i \in 1..Len(t.subs) : ~Started(t, i)

\* a handler has failed: it threw, or the promise it returned was rejected
Failed(t, i) ==
    \/ Throws(t.subs[i])
    \/ /\ i <= Len(t.results)
       /\ ~IsErrorEntry(t.results[i])
       /\ t.results[i].result.state = "rejected"

\* C5: trigger never throws to its caller; it returns one entry per
\* subscription and every failure of a handler (a synchronous throw of any
\* value, an asynchronous failure) appears as that plugin's {plugin, error}.
C5_TriggerNeverThrows ==
    LET t == lastTrigger IN
    t.called =>
        /\ t.outcome = "returned"
        /\ Len(t.results) = Len(t.subs)
        /\ \A i \in 1..Len(t.subs) : Failed(t, i) => IsErrorEntry(t.results[i])

\* C6: sequential awaiting.  Every handler has completed before the next one
\* is started and before trigger returns, and no result entry is a promise.
C6_SequentialAwait ==
    LET t    == lastTrigger
        n    == Len(t.subs)
        done(i)  == Pos(t, [e |-> "done", i |-> i])
        start(i) == Pos(t, [e |-> "start", i |-> i])
        ret  == Pos(t, [e |-> "return", i |-> 0])
    IN (OnEnumeratedHook(t) /\ t.outcome = "returned") =>
          \A i \in 1..n :
             /\ done(i) # 0 /\ done(i) < ret
             /\ i < n => done(i) < start(i + 1)
             /\ ~IsErrorEntry(t.results[i]) => t.results[i].result.kind # "promise"

----------------------------------------------------------------------------
(* Properties of the entry points *)

HookOf(kind) == IF kind = "booking" THEN "onBooking" ELSE "onLead"

RequiredOf(kind) == IF kind = "booking" THEN BookingRequired ELSE LeadRequired

\* the body lacks, or has a falsy value for, some required field
LacksRequired(r) ==
    \E i \in 1..Len(RequiredOf(r.kind)) : ~JsTruthy(Get(r.body, RequiredOf(r.kind)[i]))

NoSideEffects(r) ==
    /\ r.insert = "none"
    /\ \A row \in db : row.f # r.body.f
    /\ ~r.hook.called
    /\ r.vendors = << >>

\* C7: persist before dispatch.  The entry point triggers its hook only after
\* the insert has returned successfully, and the data it passes is the row
\* the store returned (it carries the store's id and is in the table).
C7_PersistBeforeDispatch ==
    (req.kind \in {"booking", "lead"} /\ req.hook.called) =>
        /\ req.insert = "ok"
        /\ req.hook.hook = HookOf(req.kind)
        /\ req.hook.data = req.saved
        /\ req.hook.data \in db
        /\ req.hook.data.id # 0
        /\ req.hook.data.table = TableOf(req.kind)

\* a lead was persisted and a subscribed handler received it
C7_Witness ==
    /\ req.kind = "lead"
    /\ req.hook.called
    /\ req.hook.entries >= 1

\* C8: once the record is persisted the response is 200 with success = true
\* and the saved record, whatever plugin handlers and vendor calls do.
C8_PersistedAlwaysSucceeds ==
    (req.pc = "done" /\ req.insert = "ok") =>
        /\ req.status = 200
        /\ req.resp.success
        /\ req.resp.record = req.saved
        /\ req.resp.record \in db

\* a booking answered after a plugin handler failed and all four vendor calls failed
C8_Witness ==
    /\ req.pc = "done"
    /\ req.kind = "booking"
    /\ req.insert = "ok"
    /\ req.hook.errors >= 1
    /\ Len(req.vendors) = 4
    /\ \A i \in 1..4 : req.vendors[i].outcome = "failed"

\* C9: a POST whose body lacks (or has a falsy value for) a required field is
\* answered 400, with no insert, no hook triggered and no vendor call.
C9_ValidationFailureNoSideEffects ==
    (/\ req.pc = "done"
     /\ req.kind \in {"booking", "lead"}
     /\ req.method = "POST"
     /\ LacksRequired(req)) =>
        /\ req.status = 400
        /\ NoSideEffects(req)

\* C10: when the insert reports an error the response is 500 and neither the
\* plugin hook nor any vendor helper is invoked for that request.
C10_InsertErrorAborts ==
    req.insert = "error" =>
        /\ req.pc = "done"
        /\ req.status = 500
        /\ ~req.resp.success
        /\ ~req.hook.called
        /\ req.vendors = << >>

\* the insert of a valid lead failed
C10_Witness ==
    /\ req.kind = "lead"
    /\ req.insert = "error"

\* the vendor helpers the entry point runs for the saved record, in its order
VendorsFor(r) ==
    IF r.kind = "booking" THEN BookingVendors(r.saved) ELSE LeadVendors(r.saved)

\* C11: vendor isolation at the entry point.  Once the record is persisted,
\* whatever the plugin dispatch did and whichever vendor calls failed, every
\* applicable vendor helper has been invoked, in the order of the entry point.
C11_VendorIsolation ==
    (req.pc = "done" /\ req.insert = "ok") =>
        /\ Len(req.vendors) = Len(VendorsFor(req))
        /\ \A i \in 1..Len(req.vendors) : req.vendors[i].helper = VendorsFor(req)[i]

\* C12: API-key gating of POST /api/plugin.  A plugin handler is reached
\* through the endpoint only when a non-empty secret is configured and the
\* request's apiKey equals it; every other POST (wrong key, missing key, no
\* secret configured) is answered 401 and triggers nothing.
C12_ApiKeyGating ==
    (req.pc = "done" /\ req.kind = "plugin" /\ req.method = "POST") =>
        LET authorised == /\ JsTruthy(req.secret)
                          /\ ~req.body.isNull
                          /\ Get(req.body, "apiKey") = req.secret
        IN /\ req.hook.called => authorised
           /\ ~authorised => (req.status = 401 /\ ~req.hook.called)

\* C13: each of the three entry points (booking, lead, plugin trigger) answers
\* a request whose method is not POST with 405, and validates, persists,
\* dispatches and calls nothing for it.
C13_NonPostRejected ==
    (req.pc # "idle" /\ req.method # "POST") =>
        /\ req.pc = "done"
        /\ req.status = 405
        /\ ~req.resp.success
        /\ req.resp.error = "Method not allowed"
        /\ req.insert = "none"
        /\ req.data = NullBody
        /\ \A row \in db : req.body.isNull \/ row.f # req.body.f
        /\ ~req.hook.called
        /\ req.vendors = << >>

\* a GET carrying the right key and a valid hook reached the plugin endpoint
\* while a handler is subscribed to that hook
C13_Witness ==
    /\ req.kind = "plugin"
    /\ req.method = "GET"
    /\ JsTruthy(req.secret)
    /\ ~req.body.isNull
    /\ Get(req.body, "apiKey") = req.secret
    /\ Get(req.body, "hook") = "onBooking"
    /\ hooks["onBooking"] # << >>

\* C14: updatePluginConfig(name, partial) on a registered plugin merges
\* shallowly.  The stored config afterwards has partial's value for every key
\* of partial and the value it had before for every other key; no key is
\* removed; getPluginConfig(name) then returns that merged config.
C14_ShallowMerge ==
    [][(lastCall'.op = "updatePluginConfig" /\ lastCall'.name \in DOMAIN plugins) =>
          LET name    == lastCall'.name
              partial == lastCall'.config
              old     == plugins[name].config
              new     == plugins'[name].config
              after   == [plugins |-> plugins', activePlugins |-> activePlugins',
                          hooks |-> hooks']
          IN /\ DOMAIN new = DOMAIN old \cup DOMAIN partial
             /\ \A k \in DOMAIN partial : new[k] = partial[k]
             /\ \A k \in DOMAIN old \ DOMAIN partial : new[k] = old[k]
             /\ GetPluginConfigCode(after, inherited', name).ret = "config"
             /\ GetPluginConfigCode(after, inherited', name).config = new
      ]_vars

\* a partial with a new key was merged into a config whose keys were all kept
C14_Witness ==
    /\ lastCall.op = "updatePluginConfig"
    /\ lastCall.name = "A"
    /\ lastCall.config = [k \in {"timeout"} |-> "t1"]
    /\ "A" \in DOMAIN plugins
    /\ plugins["A"].config = [k \in {"apiKey", "baseUrl", "timeout"} |->
                                 IF k = "apiKey" THEN "k1"
                                 ELSE IF k = "baseUrl" THEN "u0" ELSE "t1"]

\* C15: last registration wins.  The registry holds for a name the
\* implementation and config of its latest register call, and a trigger
\* invokes for that name only handlers of that implementation, never one of
\* an implementation that was replaced.
C15_LastRegistrationWins ==
    /\ (lastCall.op = "register") =>
          /\ lastCall.name \in DOMAIN plugins
          /\ plugins[lastCall.name].config = lastCall.config
          /\ ~plugins[lastCall.name].active
    /\ lastTrigger.called =>
          \A i \in 1..Len(lastTrigger.subs) :
              Started(lastTrigger, i) =>
                  LET sub == lastTrigger.subs[i] IN
                  /\ sub.name \in DOMAIN plugins
                  /\ sub.callback.impl = plugins[sub.name].instance

\* C16: activate(name) for a name that is not registered returns failure
\* without throwing, and leaves the plugin table, the active list and every
\* hook's subscription list unchanged.
C16_ActivateUnregistered ==
    [][(lastCall'.op = "activate" /\ lastCall'.name \notin DOMAIN plugins) =>
          /\ lastCall'.ret = "false"
          /\ lastCall'.called = {}
          /\ UNCHANGED <<plugins, activePlugins, hooks>>
      ]_vars

\* C17: deactivate(name) for a plugin that is not currently active (not
\* registered, never activated, or already deactivated) is a no-op: it returns
\* failure, invokes no cleanup, and leaves the plugin table, the active list
\* and every hook's subscription list unchanged.
C17_DeactivateInactiveNoOp ==
    [][(/\ lastCall'.op = "deactivate"
        /\ ~(lastCall'.name \in DOMAIN plugins /\ plugins[lastCall'.name].active)) =>
          /\ lastCall'.ret = "false"
          /\ lastCall'.called = {}
          /\ UNCHANGED <<plugins, activePlugins, hooks>>
      ]_vars

\* deactivate was refused for a plugin with a cleanup callback that had been
\* deactivated before, while another plugin holds subscriptions
C17_Witness ==
    /\ lastCall.op = "deactivate"
    /\ lastCall.ret = "false"
    /\ lastCall.name \in DOMAIN plugins
    /\ lastCall.name \in deactivated
    /\ ImplOf(plugins[lastCall.name].instance).cleanup = "ok"
    /\ activePlugins # << >>
    /\ \E h \in HookNames : hooks[h] # << >>

\* C18: updatePluginConfig invokes the plugin's updateConfig callback exactly
\* when the plugin is active and exposes that callback, and passes it the
\* merged config; for a registered inactive plugin the config is merged and
\* no callback runs; for an unregistered name it returns failure and changes
\* nothing.
C18_UpdateConfigCallback ==
    [][(lastCall'.op = "updatePluginConfig") =>
          LET name == lastCall'.name IN
          IF name \in DOMAIN plugins
          THEN LET plugin == plugins[name]
                   merged == Spread(plugin.config, lastCall'.config)
               IN /\ plugins'[name].config = merged
                  /\ ("updateConfig" \in lastCall'.called) <=>
                        (plugin.active /\ ImplOf(plugin.instance).updateConfig # "none")
                  /\ ("updateConfig" \in lastCall'.called) => lastCall'.passed = merged
          ELSE /\ lastCall'.ret = "false"
               /\ lastCall'.called = {}
               /\ UNCHANGED <<plugins, activePlugins, hooks, inherited>>
      ]_vars

\* C19: every lead the lead entry point persists carries a created_at stamp
\* and a source, the one supplied in the request when it is non-empty and
\* "website" otherwise; a request without email or without name is answered
\* 400 and persists nothing.
C19_LeadStampAndSource ==
    /\ \A row \in db : row.table = "leads" =>
          /\ JsTruthy(Get(row, "created_at"))
          /\ JsTruthy(Get(row, "source"))
    /\ (req.kind = "lead" /\ req.insert = "ok") =>
          /\ req.saved \in db
          /\ req.saved.table = "leads"
          /\ Get(req.saved, "source") =
                IF JsTruthy(Get(req.body, "source")) THEN Get(req.body, "source")
                ELSE "website"
    /\ (/\ req.kind = "lead"
        /\ req.method = "POST"
        /\ req.pc # "idle"
        /\ (~JsTruthy(Get(req.body, "email")) \/ ~JsTruthy(Get(req.body, "name")))) =>
          /\ req.pc = "done"
          /\ req.status = 400
          /\ NoSideEffects(req)

\* C20: a failure of a plugin's cleanup callback during deactivate is guarded.
\* deactivate does not propagate it, and the plugin ends inactive, absent from
\* the active list and with no subscription in any hook list.
C20_CleanupFailureGuarded ==
    (/\ lastCall.op = "deactivate"
     /\ "cleanup" \in lastCall.called
     /\ ImplOf(plugins[lastCall.name].instance).cleanup = "throws") =>
        /\ lastCall.ret = "true"
        /\ ~plugins[lastCall.name].active
        /\ \A i \in 1..Len(activePlugins) : activePlugins[i] # lastCall.name
        /\ \A h \in HookNames : \A i \in 1..Len(hooks[h]) : hooks[h][i].name # lastCall.name

\* C21: a failure of a plugin's init callback during activate is not caught.
\* It propagates to the caller of activate, and the activation is aborted:
\* the plugin stays not active, the active list and every hook list are as
\* before the call.
C21_InitFailureAborts ==
    [][(/\ lastCall'.op = "activate"
        /\ lastCall'.name \in DOMAIN plugins
        /\ ImplOf(plugins[lastCall'.name].instance).init = "throws") =>
          /\ lastCall'.ret = "threw"
          /\ lastCall'.called = {"init"}
          /\ ~plugins'[lastCall'.name].active
          /\ UNCHANGED <<plugins, activePlugins, hooks>>
      ]_vars

\* activate threw out of the init of a registered plugin that declares a
\* handler, while another plugin is active
C21_Witness ==
    /\ lastCall.op = "activate"
    /\ lastCall.ret = "threw"
    /\ lastCall.called = {"init"}
    /\ lastCall.name \in DOMAIN plugins
    /\ ImplOf(plugins[lastCall.name].instance).hooks # << >>
    /\ \A h \in HookNames : \A i \in 1..Len(hooks[h]) : hooks[h][i].name # lastCall.name
    /\ activePlugins # << >>

\* the number a string of decimal digits denotes
RECURSIVE NumberOf(_)
NumberOf(str) ==
    IF str = << >> THEN 0
    ELSE 10 * NumberOf(SubSeq(str, 1, Len(str) - 1))
         + (CHOOSE d \in 0..9 : DigitChars[d + 1] = str[Len(str)])

\* a millisecond timestamp modulo 10^6
ModMillion(now) == NumberOf(SubSeq(now, Len(now) - 5, Len(now)))

C23_PluginEndpointOrder ==
    (req.pc = "done" /\ req.kind = "plugin" /\ req.method = "POST") =>
        LET authorised == /\ JsTruthy(req.secret)
                          /\ ~req.body.isNull
                          /\ Get(req.body, "apiKey") = req.secret
            hook       == Get(req.body, "hook")
            data       == Get(req.body, "data")
        IN /\ ~authorised => (req.status = 401 /\ ~req.hook.called)
           /\ (authorised /\ hook \notin HookNames) => (req.status = 400 /\ ~req.hook.called)
           /\ (authorised /\ hook \in HookNames) =>
                 /\ req.status = 200
                 /\ req.resp.success
                 /\ req.resp.hook = hook
                 /\ req.hook.called
                 /\ req.hook.hook = hook
                 /\ req.hook.data = (IF data = "missing" THEN EmptyObject
                                     ELSE [id |-> 0, table |-> "", f |-> [payload |-> data]])
                 /\ req.resp.results = req.hook.results

\* the hook names a plugin object declares a handler for
Declared(impl) == {ImplOf(impl).hooks[i].key : i \in 1..Len(ImplOf(impl).hooks)}

\* C24: an activate(name) that gets past init succeeds, whatever handler names
\* the plugin declares: names outside the fixed enumeration are ignored without
\* error.  The plugin gets exactly one new subscription, appended at the end,
\* on each enumerated hook it declares a handler for and none elsewhere; it is
\* marked active and its name is appended at the end of the active list.
C24_ActivateSubscribes ==
    [][(/\ lastCall'.op = "activate"
        /\ lastCall'.name \in DOMAIN plugins
        /\ ImplOf(plugins[lastCall'.name].instance).init # "throws") =>
          LET name == lastCall'.name
              impl == plugins[name].instance
          IN /\ lastCall'.ret = "true"
             /\ \A h \in HookNames :
                   hooks'[h] = IF h \in Declared(impl)
                               THEN Append(hooks[h],
                                           [name |-> name,
                                            callback |-> [impl |-> impl, key |-> h]])
                               ELSE hooks[h]
             /\ plugins' = [plugins EXCEPT ![name].active = TRUE]
             /\ activePlugins' = Append(activePlugins, name)
      ]_vars

\* C25: registry consistency.  After any sequence of register, activate,
\* deactivate and trigger calls, a name has a subscription in some hook list
\* only if its stored active flag is true, and the active list holds exactly
\* the registered names whose active flag is true.
C25_RegistryConsistent ==
    /\ \A h \in HookNames : \A i \in 1..Len(hooks[h]) :
          /\ hooks[h][i].name \in DOMAIN plugins
          /\ plugins[hooks[h][i].name].active
    /\ Range(activePlugins) = {n \in DOMAIN plugins : plugins[n].active}

\* C26: no duplicate subscriptions.  In every reachable state each hook list
\* holds at most one entry per plugin name and the active list holds each
\* name at most once, so one trigger invokes each plugin's handler at most
\* once.
C26_NoDuplicateSubscriptions ==
    /\ \A h \in HookNames : \A i, j \in 1..Len(hooks[h]) :
          hooks[h][i].name = hooks[h][j].name => i = j
    /\ \A i, j \in 1..Len(activePlugins) : activePlugins[i] = activePlugins[j] => i = j
    /\ lastTrigger.called =>
          \A i, j \in 1..Len(lastTrigger.subs) :
              (/\ Started(lastTrigger, i)
               /\ Started(lastTrigger, j)
               /\ lastTrigger.subs[i].name = lastTrigger.subs[j].name) => i = j

\* C27: deactivation during an in-flight trigger.  Once deactivate(P) has
\* returned true no handler of P is invoked afterwards, also not by the
\* trigger call that was iterating the hook's subscriptions when an earlier
\* handler of the same dispatch called deactivate(P).
C27_NoHandlerAfterDeactivate ==
    dispatch.called =>
        \A i \in 1..Len(dispatch.invoked) :
            dispatch.invoked[i].name \notin dispatch.invoked[i].gone

----------------------------------------------------------------------------
(* Properties of the deploy watcher *)

\* C28: at most one run of deploy() is in progress at any time; a deploy()
\* call made while isDeploying is true starts no step; and isDeploying is
\* true exactly while a run is in progress, so it is false again after every
\* run has ended, however it ended (no changes, push failed, deployment
\* failed, deployed, or the deployment request rejected)
C28_DeployMutualExclusion ==
    /\ Len(watcher.runs) <= 1
    /\ watcher.isDeploying <=> (watcher.runs # << >>)
    /\ (watcher.lastDeploy.called /\ watcher.lastDeploy.wasDeploying) =>
           ~watcher.lastDeploy.started
    /\ (watcher.ended # "none" /\ watcher.runs = << >>) => ~watcher.isDeploying

\* the timer fired while a run was waiting for the deployment request, and
\* the deploy() call returned at its guard
C28_Witness ==
    /\ watcher.lastDeploy.called
    /\ watcher.lastDeploy.wasDeploying
    /\ ~watcher.lastDeploy.started
    /\ watcher.runs = <<"triggerVercelDeployment">>

\* C29: every change reported for a watched, non-excluded file is eventually
\* followed by a run of deploy() that starts after the change (timers fire
\* and every step of a run settles): a path is in `pending` from its change
\* until the next run starts
C29_ChangeEventuallyDeployed ==
    \A p \in WatchedPaths : (p \in watcher.pending) ~> (p \notin watcher.pending)

----------------------------------------------------------------------------
(* Properties of the task runner *)

\* C30: when a task started by runTask or by its schedule has failed, the
\* entry describing the failure is among those getLogs('errors') returns;
\* runTask rejects with the failure, and the scheduled callback contains it
C30_FailureLogged ==
    (runner.last.kind \in {"manual", "scheduled"} /\ runner.last.error \in TaskErrors) =>
        /\ Includes(GetLogs(runner.logs, "errors", DefaultLimit),
                    [message |-> "Error executing task " \o runner.last.name
                                     \o ": " \o runner.last.error])
        /\ (runner.last.kind = "manual") => (runner.last.outcome = "rejected")
        /\ (runner.last.kind = "scheduled") => (runner.last.outcome = "contained")

====
